---- MODULE Spec2Model ----
(***************************************************************************)
(* A model of the ZomatoAI recommendation assistant:                       *)
(*   - MemorySystem (memory_system.py): the per-user record of orders,     *)
(*     the recent-feedback window, the consolidated summary and the        *)
(*     preferences, with its JSON file;                                    *)
(*   - AgentSystem (agent_system.py): process_query, the classify /        *)
(*     filter / generate pipeline.                                         *)
(*                                                                         *)
(* Text is modelled by its structure: a multi-line string is the sequence  *)
(* of its lines, a formatted line is a record of the values interpolated   *)
(* into it, and the empty string is the empty sequence.                    *)
(***************************************************************************)
EXTENDS Integers, Sequences, FiniteSets, TLC

\* ------------------------------------------------------------------ bounds

\* Calls of add_feedback explored on one record.
MaxFeedback == 12
\* Calls of add_order explored on one record.
MaxOrders == 1

\* Calls of process_query explored on one AgentSystem.
MaxQueries == 2

\* Calls of add_order, and of add_feedback, explored on the record whose
\* order list is followed beyond the orders get_memory_context shows.
MaxOrdersLong == 6
MaxFeedbackShort == 1

\* Calls of get_food_database explored on one food_database.csv.
MaxLoads == 2

\* Constructions of, and mutating calls on, the instances two UI sessions
\* hold for the one user id.
MaxStoreCalls == 4

\* Confirmations submitted in the feedback form, after the seeding.
MaxConfirms == 6

\* ------------------------------------------------------- program constants

\* memory_system.py:79  "if len(self.memory["recent_feedbacks"]) > 10"
MAX_RECENT == 10
\* memory_system.py:114 "self.memory["order_history"][-5:]"
SHOWN_ORDERS == 5

None == "None"
\* The state of <user_id>_memory.json: absent, or holding a JSON document.
NoFile == [exists |-> FALSE, content |-> [t |-> "nothing", v |-> <<>>]]
USER_ID == "user_demo_001"

\* ------------------------------------------------------------- input sets

\* An ISO timestamp is modelled as <<date, time of day>>: the date is its
\* first ten characters.
LaterTimestamp == <<"2024-05-02", "10:00:00">>
EarlierTimestamp == <<"2024-05-01", "09:00:00">>
\* What datetime.now().isoformat() may return while the model runs.
Clock == { EarlierTimestamp }

\* timestamp[:10]
Prefix10(ts) == ts[1]

\* Arguments of add_order: (dish_id, dish_name, restaurant, price, timestamp).
OrderArgs ==
    { [dish_id |-> "D006", dish_name |-> "Masala Dosa",
       restaurant |-> "South Spice", price |-> 120,
       timestamp |-> None] }

\* Arguments of add_order on the record with the long order list: the second
\* carries a caller-supplied timestamp.
OrderArgsLong ==
    OrderArgs \cup
    { [dish_id |-> "D004", dish_name |-> "Chicken Biryani",
       restaurant |-> "Biryani Blues", price |-> 350,
       timestamp |-> LaterTimestamp] }

\* Arguments of add_feedback: (dish_id, dish_name, feedback, rating, timestamp).
\* The first carries a caller-supplied timestamp that is later than the clock.
FeedbackArgs ==
    { [dish_id |-> "D004", dish_name |-> "Chicken Biryani",
       feedback |-> "Absolutely loved it!", rating |-> 5,
       timestamp |-> LaterTimestamp],
      [dish_id |-> "D006", dish_name |-> "Masala Dosa",
       feedback |-> "Crispy and delicious", rating |-> 4,
       timestamp |-> None] }

\* Arguments of update_preferences: dictionaries, as functions on their keys.
PrefKeys == {"dietary", "spice_preference"}
PreferenceArgs ==
    { [k \in {"dietary"} |-> "Vegetarian"],
      [k \in PrefKeys |-> IF k = "dietary" THEN "Non-Vegetarian" ELSE "High"] }

VARIABLES
    memory,     \* MemorySystem.memory: the in-memory record
    disk,       \* the content of <user_id>_memory.json, or NoFile
    fb_log,     \* history: every feedback entry inserted in memory, in insertion order
    order_log,  \* history: the order of every add_order call on memory, in call order
    ret         \* the value returned by the last call on the memory store

VARIABLES
    food_df,                \* AgentSystem.food_df: the dish table
    handler_chat,           \* the turns sent to the query-handler session
    recommendation_chat,    \* the turns sent to the recommendation session
    pc,                     \* where process_query stands
    request,                \* process_query's arguments
    handler_text,           \* the classifier's response text
    debug_info,             \* process_query's debug_info dictionary
    filtered_data_context,  \* the formatted filtered rows, or the empty string
    result,                 \* the text process_query returned
    exc,                    \* the exception that left process_query, if any
    calls,                  \* history: the stages run for the current request
    n_queries               \* process_query calls so far

VARIABLES
    csv_file,   \* the content of food_database.csv, or NoCsv
    loads       \* history: the table every get_food_database call returned

VARIABLES
    sessions,     \* per UI session: <<the record of its MemorySystem>>, or <<>>
    base,         \* history: per session, <<the record its MemorySystem loaded>>
    store_calls   \* history: the calls made by the sessions and how they ended

VARIABLES
    session_state   \* st.session_state: system_loaded, selected_dish, show_form

memVars == <<memory, disk, fb_log, order_log, ret>>
uiVars == <<session_state>>
storeVars == <<sessions, base, store_calls>>
catVars == <<csv_file, loads>>
agentVars == <<food_df, handler_chat, recommendation_chat, pc, request, handler_text,
               debug_info, filtered_data_context, result, exc, calls, n_queries>>
vars == <<memory, disk, fb_log, order_log, ret, food_df, handler_chat, recommendation_chat, pc,
          request, handler_text, debug_info, filtered_data_context, result, exc, calls,
          n_queries, csv_file, loads, sessions, base, store_calls, session_state>>

\* ----------------------------------------------------------- MemorySystem

\* _load_memory, the branch taken when the file does not exist.
FreshMemory(now) ==
    [user_id |-> USER_ID,
     order_history |-> <<>>,
     recent_feedbacks |-> <<>>,
     consolidated_feedback |-> <<>>,
     preferences |-> <<>>,
     created_at |-> now]

\* --- json.dump / json.load

\* A JSON document is a tree: an object holds members by name, an array holds
\* elements in order; a string or a number stands for itself.
JArr(seq) == [t |-> "array", v |-> seq]
JObj(members) == [t |-> "object", v |-> members]

\* json.dump(self.memory, f, indent=2): the document written. Orders and
\* feedback entries are dicts of strings and numbers, the preferences a dict
\* of strings.
json_dump(m) ==
    JObj([user_id |-> m.user_id,
          order_history |->
              JArr([i \in 1..Len(m.order_history) |-> JObj(m.order_history[i])]),
          recent_feedbacks |->
              JArr([i \in 1..Len(m.recent_feedbacks) |-> JObj(m.recent_feedbacks[i])]),
          consolidated_feedback |-> m.consolidated_feedback,
          preferences |-> JObj(m.preferences),
          created_at |-> m.created_at])

\* The list json.load makes of an array of objects.
PyList(j) == [i \in 1..Len(j.v) |-> j.v[i].v]

\* json.load(f) of a whole document
json_load(doc) ==
    [user_id |-> doc.v.user_id,
     order_history |-> PyList(doc.v.order_history),
     recent_feedbacks |-> PyList(doc.v.recent_feedbacks),
     consolidated_feedback |-> doc.v.consolidated_feedback,
     preferences |-> doc.v.preferences.v,
     created_at |-> doc.v.created_at]

\* A _load_memory that never reads the file.
load_memory_fresh(file, now) == FreshMemory(now)

\* _load_memory
load_memory(file, now) ==
    IF file.exists THEN json_load(file.content) ELSE FreshMemory(now)

\* A _save_memory that writes the record without its consolidated summary.
save_memory_without_summary(m) ==
    [exists |-> TRUE, content |-> json_dump([m EXCEPT !.consolidated_feedback = <<>>])]

\* _save_memory: json.dump of the whole record over the file.
save_memory(m) == [exists |-> TRUE, content |-> json_dump(m)]

\* The line _consolidate_oldest_feedback renders for an entry:
\* "• {dish_name}: {feedback} (Rating: {rating}/5) - {timestamp[:10]}"
SummaryLine(fb) ==
    [kind |-> "summary_line", dish_name |-> fb.dish_name,
     feedback |-> fb.feedback, rating |-> fb.rating,
     date |-> Prefix10(fb.timestamp)]

SummaryHeader == [kind |-> "summary_header"]

\* A consolidation that pops the newest entry of the window, not the oldest.
consolidate_newest_feedback(m) ==
    LET newest == m.recent_feedbacks[Len(m.recent_feedbacks)]
    IN  [m EXCEPT
           !.recent_feedbacks = SubSeq(m.recent_feedbacks, 1, Len(m.recent_feedbacks) - 1),
           !.consolidated_feedback =
               IF m.consolidated_feedback # <<>>
               THEN Append(m.consolidated_feedback, SummaryLine(newest))
               ELSE <<SummaryHeader, SummaryLine(newest)>>]

\* A consolidation that pops the oldest entry and forgets it.
consolidate_forgetting_feedback(m) ==
    [m EXCEPT !.recent_feedbacks = Tail(m.recent_feedbacks)]

\* _consolidate_oldest_feedback
consolidate_oldest_feedback(m) ==
    LET oldest == Head(m.recent_feedbacks)
        summary_addition == SummaryLine(oldest)
    IN  [m EXCEPT
           !.recent_feedbacks = Tail(m.recent_feedbacks),
           !.consolidated_feedback =
               IF m.consolidated_feedback # <<>>
               THEN Append(m.consolidated_feedback, summary_addition)
               ELSE <<SummaryHeader, summary_addition>>]

\* An add_order that keeps only the 5 orders get_memory_context shows.
order_added_capped(m, a, now) ==
    LET order == [a EXCEPT !.timestamp = IF a.timestamp = None THEN now ELSE a.timestamp]
        orders == Append(m.order_history, order)
    IN  [m EXCEPT !.order_history =
            IF Len(orders) > SHOWN_ORDERS THEN Tail(orders) ELSE orders]

\* The record add_order leaves in memory.
order_added(m, a, now) ==
    LET timestamp == IF a.timestamp = None THEN now ELSE a.timestamp
        order == [a EXCEPT !.timestamp = timestamp]
    IN  [m EXCEPT !.order_history = Append(m.order_history, order)]

\* An add_feedback that never consolidates.
feedback_added_unbounded(m, a, now) ==
    [m EXCEPT !.recent_feedbacks =
        Append(m.recent_feedbacks,
               [a EXCEPT !.timestamp = IF a.timestamp = None THEN now ELSE a.timestamp])]

\* An add_feedback that consolidates as soon as the window holds 10 entries.
feedback_added_early(m, a, now) ==
    LET m1 == feedback_added_unbounded(m, a, now)
    IN  IF Len(m1.recent_feedbacks) >= MAX_RECENT
        THEN consolidate_oldest_feedback(m1)
        ELSE m1

\* An add_feedback whose consolidation replaces the summary by the new line.
feedback_added_overwriting(m, a, now) ==
    LET m1 == feedback_added_unbounded(m, a, now)
    IN  IF Len(m1.recent_feedbacks) > MAX_RECENT
        THEN [m1 EXCEPT
                !.recent_feedbacks = Tail(m1.recent_feedbacks),
                !.consolidated_feedback =
                    <<SummaryHeader, SummaryLine(Head(m1.recent_feedbacks))>>]
        ELSE m1

\* The record add_feedback leaves in memory.
feedback_added(m, a, now) ==
    LET timestamp == IF a.timestamp = None THEN now ELSE a.timestamp
        feedback_entry == [a EXCEPT !.timestamp = timestamp]
        m1 == [m EXCEPT !.recent_feedbacks = Append(m.recent_feedbacks, feedback_entry)]
    IN  IF Len(m1.recent_feedbacks) > MAX_RECENT
        THEN consolidate_oldest_feedback(m1)
        ELSE m1

\* An assignment of the given dictionary in place of dict.update.
preferences_replaced(m, p) == [m EXCEPT !.preferences = p]

\* dict.update on the preferences mapping.
preferences_updated(m, p) ==
    [m EXCEPT !.preferences =
        IF DOMAIN m.preferences = {} /\ DOMAIN p = {} THEN <<>>
        ELSE [k \in (DOMAIN m.preferences) \cup (DOMAIN p) |->
                 IF k \in DOMAIN p THEN p[k] ELSE m.preferences[k]]]

\* The keys of a preferences mapping in the order the dictionary lists them.
PrefKeyOrder == <<"dietary", "spice_preference">>
PrefKeysOf(prefs) == SelectSeq(PrefKeyOrder, LAMBDA k : k \in DOMAIN prefs)

\* "No previous history."
Placeholder == <<[kind |-> "no_history"]>>

\* "  - {key}: {value}"
PrefLine(k, v) == [kind |-> "pref_line", key |-> k, value |-> v]
\* "  - {dish_name} from {restaurant} on {timestamp[:10]}"
OrderLine(o) ==
    [kind |-> "order_line", dish_name |-> o.dish_name,
     restaurant |-> o.restaurant, date |-> Prefix10(o.timestamp)]
\* "  - {dish_name}: {feedback} (Rating: {rating}/5) - {timestamp[:10]}"
FeedbackLine(fb) ==
    [kind |-> "feedback_line", dish_name |-> fb.dish_name,
     feedback |-> fb.feedback, rating |-> fb.rating,
     date |-> Prefix10(fb.timestamp)]

\* order_history[:5]
FirstOrders(orders) ==
    SubSeq(orders, 1, IF Len(orders) > SHOWN_ORDERS THEN SHOWN_ORDERS ELSE Len(orders))

\* order_history[-5:]
LastOrders(orders) ==
    SubSeq(orders,
           IF Len(orders) > SHOWN_ORDERS THEN Len(orders) - SHOWN_ORDERS + 1 ELSE 1,
           Len(orders))

PreferencesPart(m) ==
    IF DOMAIN m.preferences # {}
    THEN <<[kind |-> "prefs_header"]>> \o
         [i \in 1..Len(PrefKeysOf(m.preferences)) |->
             PrefLine(PrefKeysOf(m.preferences)[i],
                      m.preferences[PrefKeysOf(m.preferences)[i]])]
    ELSE <<>>

OrdersPart(m) ==
    IF m.order_history # <<>>
    THEN <<[kind |-> "orders_header", total |-> Len(m.order_history)]>> \o
         [i \in 1..Len(LastOrders(m.order_history)) |->
             OrderLine(LastOrders(m.order_history)[i])]
    ELSE <<>>

FeedbackPart(m) ==
    IF m.recent_feedbacks # <<>>
    THEN <<[kind |-> "feedback_header", count |-> Len(m.recent_feedbacks)]>> \o
         [i \in 1..Len(m.recent_feedbacks) |-> FeedbackLine(m.recent_feedbacks[i])]
    ELSE <<>>

ConsolidatedPart(m) ==
    IF m.consolidated_feedback # <<>>
    THEN <<[kind |-> "consolidated", text |-> m.consolidated_feedback]>>
    ELSE <<>>

\* A get_memory_context that returns the placeholder whenever there is no
\* feedback, whatever else the record holds.
get_memory_context_feedback_only(m) ==
    IF m.recent_feedbacks = <<>> /\ m.consolidated_feedback = <<>>
    THEN Placeholder
    ELSE PreferencesPart(m) \o OrdersPart(m) \o FeedbackPart(m) \o ConsolidatedPart(m)

\* A get_memory_context that renders the orders before the preferences.
get_memory_context_orders_first(m) ==
    LET context_parts ==
            OrdersPart(m) \o PreferencesPart(m) \o FeedbackPart(m) \o ConsolidatedPart(m)
    IN  IF context_parts # <<>> THEN context_parts ELSE Placeholder

\* get_memory_context: the list context_parts, joined, or the placeholder.
get_memory_context(m) ==
    LET context_parts ==
            PreferencesPart(m) \o OrdersPart(m) \o FeedbackPart(m) \o ConsolidatedPart(m)
    IN  IF context_parts # <<>> THEN context_parts ELSE Placeholder

\* What a call returns: None, or a text.
ReturnsNone == [returned |-> "None", text |-> <<>>]
ReturnsText(t) == [returned |-> "text", text |-> t]
ReturnsList(l) == [returned |-> "list", text |-> <<>>, items |-> l]


\* add_order, on arguments drawn from args while the order list is shorter
\* than max.
add_order_on(args, max) ==
    /\ Len(memory.order_history) < max
    /\ \E a \in args, now \in Clock :
          /\ memory' = order_added(memory, a, now)
          /\ disk' = save_memory(memory')
          /\ order_log' = Append(order_log,
                 [a EXCEPT !.timestamp = IF a.timestamp = None THEN now ELSE a.timestamp])
    /\ ret' = ReturnsNone
    /\ UNCHANGED fb_log
    /\ UNCHANGED agentVars
    /\ UNCHANGED catVars
    /\ UNCHANGED storeVars
    /\ UNCHANGED uiVars

add_order == add_order_on(OrderArgs, MaxOrders)

add_order_long == add_order_on(OrderArgsLong, MaxOrdersLong)

\* add_feedback, while fewer than max entries have been inserted.
add_feedback_on(max) ==
    /\ Len(fb_log) < max
    /\ \E a \in FeedbackArgs, now \in Clock :
          /\ memory' = feedback_added(memory, a, now)
          /\ disk' = save_memory(memory')
          /\ fb_log' = Append(fb_log,
                 [a EXCEPT !.timestamp = IF a.timestamp = None THEN now ELSE a.timestamp])
    /\ ret' = ReturnsNone
    /\ UNCHANGED order_log
    /\ UNCHANGED agentVars
    /\ UNCHANGED catVars
    /\ UNCHANGED storeVars
    /\ UNCHANGED uiVars

add_feedback == add_feedback_on(MaxFeedback)

add_feedback_short == add_feedback_on(MaxFeedbackShort)

update_preferences ==
    /\ \E p \in PreferenceArgs :
          /\ memory' = preferences_updated(memory, p)
          /\ disk' = save_memory(memory')
    /\ ret' = ReturnsNone
    /\ UNCHANGED <<fb_log, order_log>>
    /\ UNCHANGED agentVars
    /\ UNCHANGED catVars
    /\ UNCHANGED storeVars
    /\ UNCHANGED uiVars

get_memory_context_call ==
    /\ ret' = ReturnsText(get_memory_context(memory))
    /\ UNCHANGED <<memory, disk, fb_log, order_log>>
    /\ UNCHANGED agentVars
    /\ UNCHANGED catVars
    /\ UNCHANGED storeVars
    /\ UNCHANGED uiVars

get_order_history ==
    /\ ret' = ReturnsList(memory.order_history)
    /\ UNCHANGED <<memory, disk, fb_log, order_log>>
    /\ UNCHANGED agentVars
    /\ UNCHANGED catVars
    /\ UNCHANGED storeVars
    /\ UNCHANGED uiVars

get_recent_feedbacks ==
    /\ ret' = ReturnsList(memory.recent_feedbacks)
    /\ UNCHANGED <<memory, disk, fb_log, order_log>>
    /\ UNCHANGED agentVars
    /\ UNCHANGED catVars
    /\ UNCHANGED storeVars
    /\ UNCHANGED uiVars

\* --- the MemorySystem instances of two UI sessions

\* Both sessions use the user id "user_demo_001", so both instances read and
\* write the one file.
Sessions == {"session_1", "session_2"}

\* How the write in _save_memory may end: the document is written; open()
\* raises and the file stays as it was; or json.dump raises after open() has
\* truncated the file.
WriteOutcomes == {"written", "not_opened", "cut_short"}
CutShortFile == [exists |-> TRUE, content |-> [t |-> "cut_short", v |-> <<>>]]

\* A write that creates the file but never replaces an existing one.
written_exclusively(file, m, outcome) ==
    CASE outcome = "written" -> IF file.exists THEN file ELSE save_memory(m)
      [] outcome = "cut_short" -> CutShortFile
      [] OTHER -> file

\* A write that cannot fail.
written_always(file, m, outcome) == save_memory(m)

\* The file _save_memory leaves behind.
written(file, m, outcome) ==
    CASE outcome = "written" -> save_memory(m)
      [] outcome = "cut_short" -> CutShortFile
      [] OTHER -> file

\* json.load raises on the file.
Unreadable(file) == file.exists /\ file.content.t # "object"

StoreCall(s, op, ok) == [by |-> s, op |-> op, ok |-> ok]

\* MemorySystem(user_id) in a session that holds no instance yet.
session_construct ==
    /\ Len(store_calls) < MaxStoreCalls
    /\ \E s \in Sessions, now \in Clock :
          /\ sessions[s] = <<>>
          /\ IF Unreadable(disk)
             THEN /\ UNCHANGED <<sessions, base>>
                  /\ store_calls' = Append(store_calls, StoreCall(s, "construct", FALSE))
             ELSE /\ sessions' = [sessions EXCEPT ![s] = <<load_memory(disk, now)>>]
                  /\ base' = [base EXCEPT ![s] = <<load_memory(disk, now)>>]
                  /\ store_calls' = Append(store_calls, StoreCall(s, "construct", TRUE))
    /\ UNCHANGED memVars
    /\ UNCHANGED agentVars
    /\ UNCHANGED catVars
    /\ UNCHANGED uiVars

\* The end of a mutating call of session s: the changed record m1 is in
\* memory, then _save_memory runs.
SessionMutation(s, op, m1) ==
    /\ \E outcome \in WriteOutcomes :
          /\ disk' = written(disk, m1, outcome)
          /\ store_calls' = Append(store_calls, StoreCall(s, op, outcome = "written"))
    /\ sessions' = [sessions EXCEPT ![s] = <<m1>>]
    /\ UNCHANGED <<memory, fb_log, order_log, ret, base>>
    /\ UNCHANGED agentVars
    /\ UNCHANGED catVars
    /\ UNCHANGED uiVars

session_add_order ==
    /\ Len(store_calls) < MaxStoreCalls
    /\ \E s \in Sessions, a \in OrderArgs, now \in Clock :
          /\ sessions[s] # <<>>
          /\ SessionMutation(s, "add_order", order_added(sessions[s][1], a, now))

session_add_feedback ==
    /\ Len(store_calls) < MaxStoreCalls
    /\ \E s \in Sessions, a \in FeedbackArgs, now \in Clock :
          /\ sessions[s] # <<>>
          /\ SessionMutation(s, "add_feedback", feedback_added(sessions[s][1], a, now))

session_update_preferences ==
    /\ Len(store_calls) < MaxStoreCalls
    /\ \E s \in Sessions, p \in PreferenceArgs :
          /\ sessions[s] # <<>>
          /\ SessionMutation(s, "update_preferences",
                             preferences_updated(sessions[s][1], p))

\* --- the feedback form of the page, and the sample user

\* sample_data of create_sample_user; ratings are written in tenths, so that
\* 4.5 is 45.
SampleData ==
    << [dish_id |-> "D004", dish_name |-> "Chicken Biryani",
        restaurant |-> "Biryani Blues", price |-> 350,
        feedback |-> "Absolutely loved it! The spices were perfect and chicken was tender.",
        rating |-> 50],
       [dish_id |-> "D006", dish_name |-> "Masala Dosa",
        restaurant |-> "South Spice", price |-> 120,
        feedback |-> "Crispy and delicious, but could use more potato filling.",
        rating |-> 40],
       [dish_id |-> "D001", dish_name |-> "Butter Chicken",
        restaurant |-> "Punjab Grill", price |-> 380,
        feedback |-> "Too creamy for my taste, felt heavy.",
        rating |-> 30],
       [dish_id |-> "D005", dish_name |-> "Veg Hakka Noodles",
        restaurant |-> "Wok Express", price |-> 180,
        feedback |-> "Quick and tasty, perfect for a light meal.",
        rating |-> 45],
       [dish_id |-> "D008", dish_name |-> "Chocolate Brownie",
        restaurant |-> "Dessert Dreams", price |-> 150,
        feedback |-> "Rich and decadent! Perfect dessert.",
        rating |-> 50] >>

SamplePreferences ==
    [dietary |-> "Non-Vegetarian", spice_preference |-> "Medium to High",
     cuisine_favorites |-> <<"Biryani", "South Indian", "Chinese">>,
     budget_range |-> "150-400 per dish"]

\* The arguments of the add_order and of the add_feedback call made for a
\* dish with a feedback text and a rating; neither call passes a timestamp.
OrderCallOf(dish_id, dish) ==
    [dish_id |-> dish_id, dish_name |-> dish.dish_name,
     restaurant |-> dish.restaurant, price |-> dish.price, timestamp |-> None]
FeedbackCallOf(dish_id, dish, feedback, rating) ==
    [dish_id |-> dish_id, dish_name |-> dish.dish_name,
     feedback |-> feedback, rating |-> rating, timestamp |-> None]
Resolved(a, now) == [a EXCEPT !.timestamp = IF a.timestamp = None THEN now ELSE a.timestamp]

\* The loop of create_sample_user over the items of data.
RECURSIVE sample_items_added(_, _, _)
sample_items_added(m, data, now) ==
    IF data = <<>> THEN m
    ELSE sample_items_added(
             feedback_added(
                 order_added(m, OrderCallOf(Head(data).dish_id, Head(data)), now),
                 FeedbackCallOf(Head(data).dish_id, Head(data), Head(data).feedback,
                                Head(data).rating),
                 now),
             Tail(data), now)

\* create_sample_user: the record of the MemorySystem it returns.
create_sample_user(file, now) ==
    preferences_updated(sample_items_added(load_memory(file, now), SampleData, now),
                        SamplePreferences)

\* A submission that records the feedback and no order.
feedback_submitted_without_order(m, dish, feedback_text, rating, now) ==
    feedback_added(m, FeedbackCallOf("unknown", dish, feedback_text, rating), now)

\* The record after show_feedback_form has handled a submission with a text:
\* add_feedback, then add_order; the parsed recommendation has no dish_id.
feedback_submitted(m, dish, feedback_text, rating, now) ==
    order_added(
        feedback_added(m, FeedbackCallOf("unknown", dish, feedback_text, rating), now),
        OrderCallOf("unknown", dish), now)

\* What parse_recommendations makes of a response.
Recommendations ==
    { [dish_name |-> "Paneer Tikka", restaurant |-> "Punjab Grill", price |-> 280],
      [dish_name |-> "Gulab Jamun", restaurant |-> "Sweet Tooth", price |-> 90] }
\* The text area of the form: left empty, or filled in.
FormTexts == {"", "Would order again"}
\* The slider of the form, in tenths; 4.0 is its default.
FormRatings == {40}

FreshSession == [system_loaded |-> FALSE, selected_dish |-> <<>>, show_form |-> FALSE]

\* A new browser session: initialize_session_state finds no 'initialized'.
initialize_session_state ==
    /\ session_state.system_loaded
    /\ session_state' = FreshSession
    /\ UNCHANGED memVars
    /\ UNCHANGED agentVars
    /\ UNCHANGED catVars
    /\ UNCHANGED storeVars

\* load_system, the part on the user's memory: the record is loaded, and
\* replaced by the sample user's when it holds no order.
load_system ==
    /\ ~session_state.system_loaded
    /\ \E now \in Clock :
          IF Len(load_memory(disk, now).order_history) = 0
          THEN /\ memory' = create_sample_user(disk, now)
               /\ disk' = save_memory(memory')
               /\ order_log' = order_log \o
                     [i \in 1..Len(SampleData) |->
                         Resolved(OrderCallOf(SampleData[i].dish_id, SampleData[i]), now)]
               /\ fb_log' = fb_log \o
                     [i \in 1..Len(SampleData) |->
                         Resolved(FeedbackCallOf(SampleData[i].dish_id, SampleData[i],
                                                 SampleData[i].feedback,
                                                 SampleData[i].rating), now)]
          ELSE /\ memory' = load_memory(disk, now)
               /\ UNCHANGED <<disk, order_log, fb_log>>
    /\ ret' = ReturnsNone
    /\ session_state' = [session_state EXCEPT !.system_loaded = TRUE]
    /\ UNCHANGED agentVars
    /\ UNCHANGED catVars
    /\ UNCHANGED storeVars

\* The click on a recommended dish in show_recommendation_tab.
select_dish ==
    /\ session_state.system_loaded
    /\ \E rec \in Recommendations :
          session_state' = [session_state EXCEPT !.selected_dish = <<rec>>,
                                                 !.show_form = TRUE]
    /\ UNCHANGED memVars
    /\ UNCHANGED agentVars
    /\ UNCHANGED catVars
    /\ UNCHANGED storeVars

\* show_feedback_form on a rerun in which one of its two buttons was pressed.
show_feedback_form ==
    /\ session_state.system_loaded
    /\ session_state.show_form
    /\ session_state.selected_dish # <<>>
    /\ \E pressed \in {"submit", "cancel"}, feedback_text \in FormTexts,
          rating \in FormRatings, now \in Clock :
          LET dish == session_state.selected_dish[1]
          IN  IF pressed = "submit" /\ feedback_text # ""
              THEN /\ Len(order_log) < Len(SampleData) + MaxConfirms
                   /\ memory' = feedback_submitted(memory, dish, feedback_text, rating, now)
                   /\ disk' = save_memory(memory')
                   /\ fb_log' = Append(fb_log,
                          Resolved(FeedbackCallOf("unknown", dish, feedback_text, rating), now))
                   /\ order_log' = Append(order_log,
                          Resolved(OrderCallOf("unknown", dish), now))
                   /\ ret' = ReturnsNone
                   /\ session_state' = [session_state EXCEPT !.selected_dish = <<>>,
                                                              !.show_form = FALSE]
              ELSE IF pressed = "cancel"
              THEN /\ session_state' = [session_state EXCEPT !.selected_dish = <<>>,
                                                              !.show_form = FALSE]
                   /\ UNCHANGED memVars
              ELSE /\ UNCHANGED memVars
                   /\ UNCHANGED uiVars
    /\ UNCHANGED agentVars
    /\ UNCHANGED catVars
    /\ UNCHANGED storeVars

\* ------------------------------------------------------------ AgentSystem

\* A response text is the sequence of its tokens: the four tags, a newline,
\* a comment running to the end of its line, prose, and the one-line
\* expressions of QueryExprs.
OPEN_PQ == "<pandas_query>"
CLOSE_PQ == "</pandas_query>"
OPEN_ND == "<no_database_needed>"
CLOSE_ND == "</no_database_needed>"
NL == "\\n"
CMT == "# comment"
TXT == "prose"

\* Expressions a classifier may put in the pandas_query tag.
E_VEG_DESSERT ==
    "food_df[(food_df['dietary'] == 'Vegetarian') & (food_df['category'] == 'Dessert')]"
E_NO_MATCH == "food_df[food_df['price'] < 0]"
E_PROJECTION == "food_df[['dish_name', 'price']]"
E_SCALAR == "len(food_df)"
E_KEYERROR == "food_df[food_df['calories'] < 300]"
E_EXIT == "exit()"
E_DROP_INPLACE == "food_df.drop(food_df.index, inplace=True)"
E_EMPTY_FRAME == "pd.DataFrame()"
QueryExprs ==
    {E_VEG_DESSERT, E_NO_MATCH, E_PROJECTION, E_SCALAR, E_KEYERROR, E_EXIT, E_DROP_INPLACE,
     E_EMPTY_FRAME}

\* start_tag / end_tag of _extract_xml_content
StartTag(tag) == IF tag = "pandas_query" THEN OPEN_PQ ELSE OPEN_ND
EndTag(tag) == IF tag = "pandas_query" THEN CLOSE_PQ ELSE CLOSE_ND

\* str.find: the 0-based index of the first occurrence, or -1.
Find(text, tok) ==
    IF \E i \in 1..Len(text) : text[i] = tok
    THEN (CHOOSE i \in 1..Len(text) :
              text[i] = tok /\ \A j \in 1..(i - 1) : text[j] # tok) - 1
    ELSE -1

\* text[a:b] for 0 <= a and 0 <= b
Slice(text, a, b) == SubSeq(text, a + 1, b)

\* str.strip
RECURSIVE LStrip(_)
LStrip(text) ==
    IF text # <<>> /\ Head(text) = NL THEN LStrip(Tail(text)) ELSE text
RECURSIVE RStrip(_)
RStrip(text) ==
    IF text # <<>> /\ text[Len(text)] = NL
    THEN RStrip(SubSeq(text, 1, Len(text) - 1))
    ELSE text
Strip(text) == RStrip(LStrip(text))

\* str.split('\n')
RECURSIVE SplitLines(_)
SplitLines(text) ==
    IF Find(text, NL) = -1
    THEN <<text>>
    ELSE <<Slice(text, 0, Find(text, NL))>> \o
         SplitLines(Slice(text, Find(text, NL) + 1, Len(text)))

\* '\n'.join
RECURSIVE JoinLines(_)
JoinLines(lines) ==
    IF lines = <<>> THEN <<>>
    ELSE IF Len(lines) = 1 THEN lines[1]
    ELSE lines[1] \o <<NL>> \o JoinLines(Tail(lines))

\* The value _extract_xml_content returns: None, or a string.
NoneStr == [is_none |-> TRUE, content |-> <<>>]
Str(content) == [is_none |-> FALSE, content |-> content]
\* The test "is not None", which an empty string passes.
IsNotNone(x) == ~x.is_none
\* Python's truth value of an Optional[str]
Truthy(x) == ~x.is_none /\ x.content # <<>>

\* An _extract_xml_content that takes everything after the start tag when the
\* end tag is missing.
extract_xml_content_lenient(text, tag) ==
    IF Find(text, StartTag(tag)) # -1
    THEN Str(Strip(Slice(text, Find(text, StartTag(tag)) + 1,
                         IF Find(text, EndTag(tag)) # -1
                         THEN Find(text, EndTag(tag)) ELSE Len(text))))
    ELSE NoneStr

\* _extract_xml_content
extract_xml_content(text, tag) ==
    LET start_tag == StartTag(tag)
        end_tag == EndTag(tag)
        start_idx == Find(text, start_tag)
        end_idx == Find(text, end_tag)
    IN  IF start_idx # -1 /\ end_idx # -1
        THEN Str(Strip(Slice(text, start_idx + 1, end_idx)))
        ELSE NoneStr

\* --- the dish table

AllColumns ==
    {"dish_id", "dish_name", "restaurant", "cuisine", "category", "price", "rating",
     "dietary", "spice_level", "prep_time_mins", "tags", "description"}

\* create_food_database: the seed rows (rating in tenths).
foods_data ==
    <<
      [dish_id |-> "D001", dish_name |-> "Butter Chicken",
       restaurant |-> "Punjab Grill", cuisine |-> "North Indian",
       category |-> "Main Course", price |-> 380, rating |-> 45,
       dietary |-> "Non-Vegetarian", spice_level |-> "Medium",
       prep_time_mins |-> 25, tags |-> <<"Creamy", "Popular", "Rich">>,
       description |-> "Tender chicken in rich tomato-butter gravy"],
      [dish_id |-> "D002", dish_name |-> "Paneer Tikka Masala",
       restaurant |-> "Punjab Grill", cuisine |-> "North Indian",
       category |-> "Main Course", price |-> 320, rating |-> 44,
       dietary |-> "Vegetarian", spice_level |-> "Medium",
       prep_time_mins |-> 20, tags |-> <<"Creamy", "Popular", "Protein-Rich">>,
       description |-> "Grilled cottage cheese in spiced tomato gravy"],
      [dish_id |-> "D003", dish_name |-> "Margherita Pizza",
       restaurant |-> "Pizza Hub", cuisine |-> "Italian",
       category |-> "Main Course", price |-> 280, rating |-> 43,
       dietary |-> "Vegetarian", spice_level |-> "None",
       prep_time_mins |-> 18, tags |-> <<"Cheesy", "Classic", "Quick">>,
       description |-> "Classic pizza with mozzarella and basil"],
      [dish_id |-> "D004", dish_name |-> "Chicken Biryani",
       restaurant |-> "Biryani Blues", cuisine |-> "Hyderabadi",
       category |-> "Main Course", price |-> 350, rating |-> 47,
       dietary |-> "Non-Vegetarian", spice_level |-> "Medium",
       prep_time_mins |-> 30, tags |-> <<"Aromatic", "Filling", "Traditional">>,
       description |-> "Fragrant basmati rice with tender chicken"],
      [dish_id |-> "D005", dish_name |-> "Veg Hakka Noodles",
       restaurant |-> "Wok Express", cuisine |-> "Chinese",
       category |-> "Main Course", price |-> 180, rating |-> 42,
       dietary |-> "Vegetarian", spice_level |-> "Medium",
       prep_time_mins |-> 15, tags |-> <<"Quick", "Light", "Stir-Fried">>,
       description |-> "Stir-fried noodles with vegetables"],
      [dish_id |-> "D006", dish_name |-> "Masala Dosa",
       restaurant |-> "South Spice", cuisine |-> "South Indian",
       category |-> "Main Course", price |-> 120, rating |-> 46,
       dietary |-> "Vegetarian", spice_level |-> "Medium",
       prep_time_mins |-> 20, tags |-> <<"Crispy", "Traditional", "Healthy">>,
       description |-> "Crispy rice crepe with spiced potato filling"],
      [dish_id |-> "D007", dish_name |-> "Chicken Fried Rice",
       restaurant |-> "Wok Express", cuisine |-> "Chinese",
       category |-> "Main Course", price |-> 220, rating |-> 43,
       dietary |-> "Non-Vegetarian", spice_level |-> "Low",
       prep_time_mins |-> 15, tags |-> <<"Quick", "Filling", "Savory">>,
       description |-> "Stir-fried rice with chicken and vegetables"],
      [dish_id |-> "D008", dish_name |-> "Chocolate Brownie",
       restaurant |-> "Dessert Dreams", cuisine |-> "Continental",
       category |-> "Dessert", price |-> 150, rating |-> 45,
       dietary |-> "Vegetarian", spice_level |-> "None",
       prep_time_mins |-> 10, tags |-> <<"Sweet", "Chocolatey", "Indulgent">>,
       description |-> "Rich chocolate brownie with ice cream"],
      [dish_id |-> "D009", dish_name |-> "Caesar Salad",
       restaurant |-> "Healthy Bites", cuisine |-> "Continental",
       category |-> "Appetizer", price |-> 200, rating |-> 41,
       dietary |-> "Non-Vegetarian", spice_level |-> "None",
       prep_time_mins |-> 10, tags |-> <<"Healthy", "Fresh", "Light">>,
       description |-> "Crisp romaine with Caesar dressing and chicken"],
      [dish_id |-> "D010", dish_name |-> "Gulab Jamun",
       restaurant |-> "Sweet Tooth", cuisine |-> "Indian",
       category |-> "Dessert", price |-> 80, rating |-> 44,
       dietary |-> "Vegetarian", spice_level |-> "None",
       prep_time_mins |-> 5, tags |-> <<"Sweet", "Traditional", "Popular">>,
       description |-> "Deep-fried milk balls in sugar syrup"],
      [dish_id |-> "D011", dish_name |-> "Fish Curry",
       restaurant |-> "Coastal Kitchen", cuisine |-> "Coastal",
       category |-> "Main Course", price |-> 400, rating |-> 46,
       dietary |-> "Non-Vegetarian", spice_level |-> "High",
       prep_time_mins |-> 25, tags |-> <<"Spicy", "Tangy", "Traditional">>,
       description |-> "Fresh fish in coconut-based spicy curry"],
      [dish_id |-> "D012", dish_name |-> "Veg Burger",
       restaurant |-> "Burger Town", cuisine |-> "American",
       category |-> "Main Course", price |-> 150, rating |-> 40,
       dietary |-> "Vegetarian", spice_level |-> "Low",
       prep_time_mins |-> 12, tags |-> <<"Quick", "Filling", "Casual">>,
       description |-> "Vegetable patty with fresh veggies and sauces"],
      [dish_id |-> "D013", dish_name |-> "Chole Bhature",
       restaurant |-> "Punjabi Zaika", cuisine |-> "North Indian",
       category |-> "Main Course", price |-> 140, rating |-> 45,
       dietary |-> "Vegetarian", spice_level |-> "Medium",
       prep_time_mins |-> 20, tags |-> <<"Filling", "Traditional", "Popular">>,
       description |-> "Spicy chickpea curry with fried bread"],
      [dish_id |-> "D014", dish_name |-> "Pad Thai",
       restaurant |-> "Thai Basil", cuisine |-> "Thai",
       category |-> "Main Course", price |-> 320, rating |-> 44,
       dietary |-> "Non-Vegetarian", spice_level |-> "Medium",
       prep_time_mins |-> 20, tags |-> <<"Tangy", "Sweet", "Exotic">>,
       description |-> "Stir-fried rice noodles with shrimp and peanuts"],
      [dish_id |-> "D015", dish_name |-> "Idli Sambar",
       restaurant |-> "South Spice", cuisine |-> "South Indian",
       category |-> "Main Course", price |-> 100, rating |-> 45,
       dietary |-> "Vegetarian", spice_level |-> "Low",
       prep_time_mins |-> 15, tags |-> <<"Healthy", "Light", "Traditional">>,
       description |-> "Steamed rice cakes with lentil soup"],
      [dish_id |-> "D016", dish_name |-> "Chicken Wings",
       restaurant |-> "Wings & Things", cuisine |-> "American",
       category |-> "Appetizer", price |-> 280, rating |-> 43,
       dietary |-> "Non-Vegetarian", spice_level |-> "High",
       prep_time_mins |-> 18, tags |-> <<"Spicy", "Crispy", "Popular">>,
       description |-> "Crispy chicken wings with hot sauce"],
      [dish_id |-> "D017", dish_name |-> "Paneer Wrap",
       restaurant |-> "Quick Bites", cuisine |-> "Fusion",
       category |-> "Main Course", price |-> 160, rating |-> 42,
       dietary |-> "Vegetarian", spice_level |-> "Medium",
       prep_time_mins |-> 10, tags |-> <<"Quick", "Filling", "Portable">>,
       description |-> "Grilled paneer with veggies in wrap"],
      [dish_id |-> "D018", dish_name |-> "Mutton Rogan Josh",
       restaurant |-> "Kashmir Kitchen", cuisine |-> "Kashmiri",
       category |-> "Main Course", price |-> 450, rating |-> 47,
       dietary |-> "Non-Vegetarian", spice_level |-> "High",
       prep_time_mins |-> 35, tags |-> <<"Rich", "Aromatic", "Premium">>,
       description |-> "Tender mutton in aromatic red curry"],
      [dish_id |-> "D019", dish_name |-> "Mango Lassi",
       restaurant |-> "Lassi Corner", cuisine |-> "Indian",
       category |-> "Beverage", price |-> 80, rating |-> 46,
       dietary |-> "Vegetarian", spice_level |-> "None",
       prep_time_mins |-> 5, tags |-> <<"Refreshing", "Sweet", "Cooling">>,
       description |-> "Yogurt-based mango drink"],
      [dish_id |-> "D020", dish_name |-> "Veg Thali",
       restaurant |-> "Rajdhani Thali", cuisine |-> "Rajasthani",
       category |-> "Main Course", price |-> 300, rating |-> 46,
       dietary |-> "Vegetarian", spice_level |-> "Medium",
       prep_time_mins |-> 25, tags |-> <<"Complete Meal", "Variety", "Traditional">>,
       description |-> "Complete meal with dal, vegetables, roti, rice, dessert"]
    >>
\* A seed that stops after the ninth dish.
create_food_database_short == [columns |-> AllColumns, rows |-> SubSeq(foods_data, 1, 9)]

\* A DataFrame: its columns and its rows.
create_food_database == [columns |-> AllColumns, rows |-> foods_data]

\* pd.DataFrame()
EmptyDataFrame == [columns |-> {}, rows |-> <<>>]

\* --- food_database.csv

\* The dtypes pd.DataFrame(foods_data) gives the columns: int64, float64, and
\* object; the object column tags holds lists, the others strings.
IntColumns == {"price", "prep_time_mins"}
FloatColumns == {"rating"}
ListColumns == {"tags"}

\* str(list) of a list of strings, as the sequence of its tokens:
\* ['Creamy', 'Popular', 'Rich']
RECURSIVE ReprItems(_)
ReprItems(items) ==
    IF items = <<>> THEN <<>>
    ELSE <<"'", Head(items), "'">> \o
         (IF Len(items) > 1 THEN <<", ">> ELSE <<>>) \o ReprItems(Tail(items))
ListRepr(items) == <<"[">> \o ReprItems(items) \o <<"]">>
\* isinstance(v, str), for the value of a tags cell
IsListRepr(v) == v # <<>> /\ v[1] = "["
\* eval of the text of a list of strings
ParseListRepr(text) == SelectSeq(text, LAMBDA t : t \notin {"[", "]", "'", ", "})

\* The text of a CSV field: an integer literal, a decimal literal, or other
\* characters.
CsvField(col, v) ==
    CASE col \in IntColumns -> [lex |-> "integer", num |-> v, text |-> <<>>]
      [] col \in FloatColumns -> [lex |-> "decimal", num |-> v, text |-> <<>>]
      [] col \in ListColumns -> [lex |-> "chars", num |-> 0, text |-> ListRepr(v)]
      [] OTHER -> [lex |-> "chars", num |-> 0, text |-> <<v>>]

\* df.to_csv(filepath, index=False)
NoCsv == [exists |-> FALSE, columns |-> {}, lines |-> <<>>]
save_database_to_csv(df) ==
    [exists |-> TRUE, columns |-> df.columns,
     lines |-> [i \in 1..Len(df.rows) |->
                  [c \in df.columns |-> CsvField(c, df.rows[i][c])]]]

\* The missing value read_csv puts in a cell.
NaN == "nan"
\* The field texts read_csv takes for missing values by default; "None" is
\* among them in the newer pandas releases only.
NaValueSets == { {"", "NA", "NaN", "NULL", "null", "nan"},
                 {"", "NA", "NaN", "NULL", "null", "nan", "None"} }

\* The value read_csv gives a field.
ParseField(field, na_values) ==
    CASE field.lex \in {"integer", "decimal"} -> field.num
      [] Len(field.text) = 1 /\ field.text[1] \in na_values -> NaN
      [] Len(field.text) = 1 -> field.text[1]
      [] OTHER -> field.text

\* pd.read_csv(filepath)
load_database_from_csv(file, na_values) ==
    [columns |-> file.columns,
     rows |-> [i \in 1..Len(file.lines) |->
                 [c \in file.columns |-> ParseField(file.lines[i][c], na_values)]]]

\* get_food_database: the table returned and the file left behind.
get_food_database(file, na_values) ==
    IF file.exists
    THEN [df |-> load_database_from_csv(file, na_values), file |-> file]
    ELSE [df |-> create_food_database,
          file |-> save_database_to_csv(create_food_database)]

\* df.empty
IsEmpty(df) == df.rows = <<>> \/ df.columns = {}

\* --- eval(query, {"food_df": food_df, "pd": pd})

\* The value of one expression and the table it leaves behind.
\* kind: "table" a DataFrame, "value" any other value, "raise" an Exception,
\* "exit" a SystemExit (a BaseException that is no Exception).
EvalExpr(e, df) ==
    CASE e = E_VEG_DESSERT ->
            [kind |-> "table", df |-> df,
             table |-> [columns |-> df.columns,
                        rows |-> SelectSeq(df.rows,
                                    LAMBDA r : r.dietary = "Vegetarian"
                                               /\ r.category = "Dessert")]]
      [] e = E_NO_MATCH ->
            [kind |-> "table", df |-> df,
             table |-> [columns |-> df.columns,
                        rows |-> SelectSeq(df.rows, LAMBDA r : r.price < 0)]]
      [] e = E_PROJECTION ->
            [kind |-> "table", df |-> df,
             table |-> [columns |-> {"dish_name", "price"},
                        rows |-> [i \in 1..Len(df.rows) |->
                                    [dish_name |-> df.rows[i].dish_name,
                                     price |-> df.rows[i].price]]]]
      [] e = E_EMPTY_FRAME -> [kind |-> "table", df |-> df, table |-> EmptyDataFrame]
      [] e = E_SCALAR -> [kind |-> "value", df |-> df, table |-> EmptyDataFrame]
      [] e = E_KEYERROR -> [kind |-> "raise", df |-> df, table |-> EmptyDataFrame]
      [] e = E_EXIT -> [kind |-> "exit", df |-> df, table |-> EmptyDataFrame]
      [] e = E_DROP_INPLACE ->
            [kind |-> "value", df |-> [df EXCEPT !.rows = <<>>], table |-> EmptyDataFrame]
      [] OTHER -> [kind |-> "raise", df |-> df, table |-> EmptyDataFrame]

\* The tokens of a source text that are code: not a newline, not a comment,
\* not what follows a comment on its line.
RECURSIVE CodeTokens(_, _)
CodeTokens(text, in_comment) ==
    IF text = <<>> THEN <<>>
    ELSE IF Head(text) = NL THEN CodeTokens(Tail(text), FALSE)
    ELSE IF Head(text) = CMT \/ in_comment THEN CodeTokens(Tail(text), TRUE)
    ELSE <<Head(text)>> \o CodeTokens(Tail(text), FALSE)

\* Python's eval of a source text: a SyntaxError unless the code is exactly one
\* expression.
Eval(query, df) ==
    LET code == CodeTokens(query, FALSE)
    IN  IF Len(code) = 1 /\ code[1] \in QueryExprs
        THEN EvalExpr(code[1], df)
        ELSE [kind |-> "raise", df |-> df, table |-> EmptyDataFrame]

\* The query _execute_pandas_query hands to eval.
CleanQuery(query) ==
    LET stripped == Strip(query)
    IN  IF stripped # <<>> /\ stripped[1] = CMT
        THEN JoinLines(SelectSeq(SplitLines(stripped),
                                 LAMBDA line : ~(Strip(line) # <<>> /\ Strip(line)[1] = CMT)))
        ELSE stripped

\* An _execute_pandas_query without the except clause: every exception of
\* eval leaves it.
execute_pandas_query_raising(query, df) ==
    LET ev == Eval(CleanQuery(query), df)
    IN  [escaped |-> ev.kind \in {"exit", "raise"},
         result |-> IF ev.kind = "table" THEN ev.table ELSE EmptyDataFrame,
         food_df |-> ev.df]

\* _execute_pandas_query: escaped when an exception leaves it, else the
\* DataFrame it returns; food_df is the table eval left behind.
execute_pandas_query(query, df) ==
    LET ev == Eval(CleanQuery(query), df)
    IN  [escaped |-> ev.kind = "exit",
         result |-> IF ev.kind = "table" THEN ev.table ELSE EmptyDataFrame,
         food_df |-> ev.df]

\* The columns _format_filtered_data reads of every row.
FormatColumns ==
    {"dish_name", "restaurant", "cuisine", "category", "price", "rating", "dietary",
     "spice_level", "description", "tags"}

\* "No matching dishes found in database."
NoMatchText == <<[kind |-> "no_match"]>>

\* The lines _format_filtered_data writes for a row.
DishBlock(row) ==
    [kind |-> "dish", dish_name |-> row.dish_name, restaurant |-> row.restaurant,
     cuisine |-> row.cuisine, category |-> row.category, price |-> row.price,
     rating |-> row.rating, dietary |-> row.dietary, spice_level |-> row.spice_level,
     description |-> row.description,
     tags |-> IF IsListRepr(row.tags) THEN ParseListRepr(row.tags) ELSE row.tags]

\* A formatting that writes nothing for an empty table.
format_filtered_data_silent(df) ==
    IF IsEmpty(df) THEN [raised |-> FALSE, text |-> <<>>]
    ELSE IF ~(FormatColumns \subseteq df.columns) THEN [raised |-> TRUE, text |-> <<>>]
    ELSE [raised |-> FALSE,
          text |-> <<[kind |-> "found", count |-> Len(df.rows)]>> \o
                   [i \in 1..Len(df.rows) |-> DishBlock(df.rows[i])]]

\* _format_filtered_data: raised when a KeyError leaves it, else its text.
format_filtered_data(df) ==
    IF IsEmpty(df) THEN [raised |-> FALSE, text |-> NoMatchText]
    ELSE IF ~(FormatColumns \subseteq df.columns) THEN [raised |-> TRUE, text |-> <<>>]
    ELSE [raised |-> FALSE,
          text |-> <<[kind |-> "found", count |-> Len(df.rows)]>> \o
                   [i \in 1..Len(df.rows) |-> DishBlock(df.rows[i])]]

\* --- process_query

\* What an external model call (chat.send_message, then the checks on the
\* response) may do: return a response with a text, return a response that is
\* None or has no text, or raise an Exception with some detail.
ExceptionDetails == {"429 quota exceeded", "503 connection reset"}
TextOutcome(t) == [kind |-> "text", text |-> t, detail |-> ""]
InvalidOutcome == [kind |-> "invalid", text |-> <<>>, detail |-> ""]
RaiseOutcome(d) == [kind |-> "raise", text |-> <<>>, detail |-> d]

\* Responses of the classifier.
HandlerTexts ==
    { <<OPEN_PQ, NL, E_VEG_DESSERT, NL, CLOSE_PQ>>,
      <<OPEN_PQ, E_NO_MATCH, CLOSE_PQ>>,
      <<OPEN_PQ, E_PROJECTION, CLOSE_PQ>>,
      <<OPEN_PQ, E_SCALAR, CLOSE_PQ>>,
      <<OPEN_PQ, E_KEYERROR, CLOSE_PQ>>,
      <<OPEN_PQ, E_EXIT, CLOSE_PQ>>,
      <<OPEN_PQ, E_DROP_INPLACE, CLOSE_PQ>>,
      <<OPEN_PQ, E_EMPTY_FRAME, CLOSE_PQ>>,
      <<OPEN_PQ, NL, CMT, NL, E_VEG_DESSERT, NL, CLOSE_PQ>>,
      <<OPEN_PQ, CMT, CLOSE_PQ>>,
      <<OPEN_PQ, TXT, CLOSE_PQ>>,
      <<OPEN_PQ, E_VEG_DESSERT, NL, E_NO_MATCH, CLOSE_PQ>>,
      <<TXT, NL, OPEN_PQ, E_VEG_DESSERT, CLOSE_PQ, NL, TXT>>,
      <<OPEN_PQ, E_VEG_DESSERT, CLOSE_PQ, NL, OPEN_ND, TXT, CLOSE_ND>>,
      <<OPEN_ND, TXT, CLOSE_ND, NL, OPEN_PQ, E_NO_MATCH, CLOSE_PQ>>,
      <<OPEN_ND, NL, TXT, NL, CLOSE_ND>>,
      <<OPEN_PQ, NL, CLOSE_PQ>>,
      <<CLOSE_PQ, E_VEG_DESSERT, OPEN_PQ>>,
      <<OPEN_PQ, E_VEG_DESSERT>>,
      <<E_VEG_DESSERT, CLOSE_PQ>>,
      <<E_VEG_DESSERT>>,
      <<TXT>>,
      <<>> }

ClassifierOutcomes ==
    {TextOutcome(t) : t \in HandlerTexts} \cup {InvalidOutcome}
        \cup {RaiseOutcome(d) : d \in ExceptionDetails}

\* Responses of the recommendation agent.
GeneratorTexts == { <<"five ranked recommendations">> }
GeneratorOutcomes ==
    {TextOutcome(t) : t \in GeneratorTexts} \cup {InvalidOutcome}
        \cup {RaiseOutcome(d) : d \in ExceptionDetails}

UserQueries == {"show me vegetarian desserts"}
MemoryContexts == {Placeholder}

\* The texts process_query returns.
NoResult == [kind |-> "none", detail |-> "", text |-> <<>>]
\* "Sorry, I couldn't process your query. Please try again."
SorryProcess == [kind |-> "sorry_process", detail |-> "", text |-> <<>>]
\* "Sorry, I couldn't generate recommendations at this moment. Please try again."
SorryGenerate == [kind |-> "sorry_generate", detail |-> "", text |-> <<>>]
\* f"Sorry, an error occurred: {str(e)}"
SorryError(d) == [kind |-> "sorry_error", detail |-> d, text |-> <<>>]
\* final_text
FinalText(t) == [kind |-> "final_text", detail |-> "", text |-> t]

\* The first turn of each session.
SystemPrompt(agent) == [kind |-> "system_prompt", agent |-> agent]

\* handler_input
HandlerInput(req) ==
    [kind |-> "handler_input", user_query |-> req.user_query,
     memory_context |-> req.memory_context]

\* A third step that sends the preamble again instead of its input.
RecommendationInputWithPreamble(req, context) == SystemPrompt("recommendation_agent")

\* recommendation_input: the catalog section is written iff
\* filtered_data_context is a non-empty string.
RecommendationInput(req, context) ==
    [kind |-> "recommendation_input", user_query |-> req.user_query,
     memory_context |-> req.memory_context,
     has_catalog_section |-> context # <<>>,
     catalog_section |-> context]

\* An entry of the history of stages: the stage run and how it ended
\* (a model call: "text", "invalid" or "raise"; the filter and the
\* formatting: "returned" or "raised").
Call(stage, outcome) == [stage |-> stage, outcome |-> outcome]

\* debug_info as process_query creates it.
InitialDebugInfo ==
    [database_searched |-> FALSE, filtered_dishes_count |-> 0,
     keys |-> {"query", "timestamp", "database_searched", "filtered_dishes_count"}]

\* A step 1 that also reports an error when the response holds neither tag.
ClassifyStageStrict(out) ==
    CASE out.kind = "raise" -> [returns |-> TRUE, result |-> SorryError(out.detail)]
      [] out.kind = "invalid" -> [returns |-> TRUE, result |-> SorryProcess]
      [] out.kind = "text"
            /\ extract_xml_content(out.text, "pandas_query").is_none
            /\ extract_xml_content(out.text, "no_database_needed").is_none ->
            [returns |-> TRUE, result |-> SorryProcess]
      [] OTHER -> [returns |-> FALSE, result |-> NoResult]

\* A step 1 that goes on to step 2 with a response that has no text.
ClassifyStageContinuing(out) ==
    CASE out.kind = "raise" -> [returns |-> TRUE, result |-> SorryError(out.detail)]
      [] OTHER -> [returns |-> FALSE, result |-> NoResult]

\* Step 1 on a classifier outcome: whether process_query returns there, and
\* with which text.
ClassifyStage(out) ==
    CASE out.kind = "raise" -> [returns |-> TRUE, result |-> SorryError(out.detail)]
      [] out.kind = "invalid" -> [returns |-> TRUE, result |-> SorryProcess]
      [] OTHER -> [returns |-> FALSE, result |-> NoResult]

\* A step 2 that executes the query a second time when the first execution
\* came back without rows.
FilterStageRetrying(text, df, debug) ==
    LET pandas_query == extract_xml_content(text, "pandas_query")
        searched == [debug EXCEPT !.database_searched = TRUE,
                                  !.keys = @ \cup {"pandas_query"}]
        first == execute_pandas_query(pandas_query.content, df)
        retried == ~first.escaped /\ IsEmpty(first.result)
        executed == IF retried
                    THEN execute_pandas_query(pandas_query.content, first.food_df)
                    ELSE first
        ran == IF retried THEN <<Call("filter", "returned")>> ELSE <<>>
        counted == [searched EXCEPT !.filtered_dishes_count = Len(executed.result.rows)]
        formatted == format_filtered_data(executed.result)
    IN  IF Truthy(pandas_query)
        THEN IF executed.escaped
             THEN [exc |-> "SystemExit", calls |-> ran \o <<Call("filter", "raised")>>,
                   debug_info |-> searched,
                   filtered_data_context |-> <<>>, food_df |-> executed.food_df]
             ELSE IF formatted.raised
             THEN [exc |-> "KeyError",
                   calls |-> ran \o <<Call("filter", "returned"), Call("format", "raised")>>,
                   debug_info |-> counted,
                   filtered_data_context |-> <<>>, food_df |-> executed.food_df]
             ELSE [exc |-> "none",
                   calls |-> ran \o <<Call("filter", "returned"), Call("format", "returned")>>,
                   debug_info |-> [counted EXCEPT !.keys = @ \cup {"filtered_data_preview"}],
                   filtered_data_context |-> formatted.text, food_df |-> executed.food_df]
        ELSE [exc |-> "none", calls |-> <<>>, debug_info |-> debug,
              filtered_data_context |-> <<>>, food_df |-> df]

\* Step 2 on the classifier's text: the tag extraction, and when a query was
\* extracted, its execution and the formatting of its rows.
FilterStage(text, df, debug) ==
    LET pandas_query == extract_xml_content(text, "pandas_query")
        no_db_needed == extract_xml_content(text, "no_database_needed")
        searched == [debug EXCEPT !.database_searched = TRUE,
                                  !.keys = @ \cup {"pandas_query"}]
        executed == execute_pandas_query(pandas_query.content, df)
        counted == [searched EXCEPT !.filtered_dishes_count = Len(executed.result.rows)]
        formatted == format_filtered_data(executed.result)
    IN  IF Truthy(pandas_query)
        THEN IF executed.escaped
             THEN [exc |-> "SystemExit", calls |-> <<Call("filter", "raised")>>,
                   debug_info |-> searched,
                   filtered_data_context |-> <<>>, food_df |-> executed.food_df]
             ELSE IF formatted.raised
             THEN [exc |-> "KeyError",
                   calls |-> <<Call("filter", "returned"), Call("format", "raised")>>,
                   debug_info |-> counted,
                   filtered_data_context |-> <<>>, food_df |-> executed.food_df]
             ELSE [exc |-> "none",
                   calls |-> <<Call("filter", "returned"), Call("format", "returned")>>,
                   debug_info |-> [counted EXCEPT !.keys = @ \cup {"filtered_data_preview"}],
                   filtered_data_context |-> formatted.text, food_df |-> executed.food_df]
        ELSE [exc |-> "none", calls |-> <<>>, debug_info |-> debug,
              filtered_data_context |-> <<>>, food_df |-> df]

\* Step 3 on a generator outcome: the text process_query returns.
GenerateStage(out) ==
    CASE out.kind = "raise" -> SorryError(out.detail)
      [] out.kind = "invalid" -> SorryGenerate
      [] OTHER -> FinalText(out.text)

\* process_query, from its entry to the end of step 1.
pq_classify ==
    /\ pc \in {"idle", "returned", "raised"}
    /\ n_queries < MaxQueries
    /\ \E q \in UserQueries, mc \in MemoryContexts, out \in ClassifierOutcomes :
          /\ request' = [user_query |-> q, memory_context |-> mc]
          /\ handler_chat' = Append(handler_chat, HandlerInput(request'))
          /\ handler_text' = out.text
          /\ calls' = <<Call("classifier", out.kind)>>
          /\ result' = ClassifyStage(out).result
          /\ pc' = IF ClassifyStage(out).returns THEN "returned" ELSE "step2"
          /\ debug_info' =
                IF ClassifyStage(out).returns THEN InitialDebugInfo
                ELSE [InitialDebugInfo EXCEPT !.keys = @ \cup {"handler_response"}]
    /\ n_queries' = n_queries + 1
    /\ filtered_data_context' = <<>>
    /\ exc' = "none"
    /\ UNCHANGED <<food_df, recommendation_chat>>
    /\ UNCHANGED memVars
    /\ UNCHANGED catVars
    /\ UNCHANGED storeVars
    /\ UNCHANGED uiVars

\* process_query, step 2.
pq_filter ==
    /\ pc = "step2"
    /\ LET s == FilterStage(handler_text, food_df, debug_info)
       IN  /\ food_df' = s.food_df
           /\ debug_info' = s.debug_info
           /\ filtered_data_context' = s.filtered_data_context
           /\ exc' = s.exc
           /\ calls' = calls \o s.calls
           /\ pc' = IF s.exc = "none" THEN "step3" ELSE "raised"
    /\ UNCHANGED <<handler_chat, recommendation_chat, request, handler_text, result,
                   n_queries>>
    /\ UNCHANGED memVars
    /\ UNCHANGED catVars
    /\ UNCHANGED storeVars
    /\ UNCHANGED uiVars

\* process_query, step 3 to its return.
pq_generate ==
    /\ pc = "step3"
    /\ \E out \in GeneratorOutcomes :
          /\ result' = GenerateStage(out)
          /\ calls' = Append(calls, Call("generator", out.kind))
          /\ debug_info' =
                IF out.kind = "text"
                THEN [debug_info EXCEPT !.keys = @ \cup {"final_response"}]
                ELSE debug_info
    /\ recommendation_chat' =
          Append(recommendation_chat, RecommendationInput(request, filtered_data_context))
    /\ pc' = "returned"
    /\ UNCHANGED <<food_df, handler_chat, request, handler_text, filtered_data_context,
                   exc, n_queries>>
    /\ UNCHANGED memVars
    /\ UNCHANGED catVars
    /\ UNCHANGED storeVars
    /\ UNCHANGED uiVars

\* get_food_database()
get_food_database_call ==
    /\ Len(loads) < MaxLoads
    /\ \E na_values \in NaValueSets :
          LET got == get_food_database(csv_file, na_values)
          IN  /\ csv_file' = got.file
              /\ loads' = Append(loads, got.df)
    /\ UNCHANGED agentVars
    /\ UNCHANGED memVars
    /\ UNCHANGED storeVars
    /\ UNCHANGED uiVars

\* AgentSystem(api_key, food_df) on the table get_food_database returned last.
agent_init ==
    /\ loads # <<>>
    /\ pc \in {"idle", "returned", "raised"}
    /\ food_df' = loads[Len(loads)]
    /\ handler_chat' = <<SystemPrompt("query_handler")>>
    /\ recommendation_chat' = <<SystemPrompt("recommendation_agent")>>
    /\ pc' = "idle"
    /\ calls' = <<>>
    /\ n_queries' = 0
    /\ UNCHANGED <<request, handler_text, debug_info, filtered_data_context, result, exc>>
    /\ UNCHANGED memVars
    /\ UNCHANGED catVars
    /\ UNCHANGED storeVars
    /\ UNCHANGED uiVars

\* AgentSystem.__init__
InitAgent ==
    /\ food_df = create_food_database
    /\ handler_chat = <<SystemPrompt("query_handler")>>
    /\ recommendation_chat = <<SystemPrompt("recommendation_agent")>>
    /\ pc = "idle"
    /\ request = [user_query |-> "", memory_context |-> <<>>]
    /\ handler_text = <<>>
    /\ debug_info = InitialDebugInfo
    /\ filtered_data_context = <<>>
    /\ result = NoResult
    /\ exc = "none"
    /\ calls = <<>>
    /\ n_queries = 0

InitMemory ==
    /\ \E now \in Clock : memory = load_memory(NoFile, now)
    /\ disk = NoFile
    /\ fb_log = <<>>
    /\ order_log = <<>>
    /\ ret = ReturnsNone

InitCatalog ==
    /\ csv_file = NoCsv
    /\ loads = <<>>

InitSessions ==
    /\ session_state = FreshSession
    /\ sessions = [s \in Sessions |-> <<>>]
    /\ base = [s \in Sessions |-> <<>>]
    /\ store_calls = <<>>

Init == InitMemory /\ InitAgent /\ InitCatalog /\ InitSessions

Next ==
    \/ add_order
    \/ add_feedback
    \/ update_preferences
    \/ get_memory_context_call

Spec == Init /\ [][Next]_vars

\* The memory store followed along a long order list.
NextOrders ==
    \/ add_order_long
    \/ add_feedback_short
    \/ update_preferences
    \/ get_memory_context_call

SpecOrders == Init /\ [][NextOrders]_vars

NextAgent ==
    \/ pq_classify
    \/ pq_filter
    \/ pq_generate

SpecAgent == Init /\ [][NextAgent]_vars

\* The feedback add_feedback was called with before the sessions start.
PastFeedbackArg == CHOOSE a \in FeedbackArgs : a.timestamp = None
PastLog(n) == [i \in 1..n |-> [PastFeedbackArg EXCEPT !.timestamp = EarlierTimestamp]]
\* The record after n such add_feedback calls on a fresh record.
RECURSIVE RecordAfterFeedbacks(_)
RecordAfterFeedbacks(n) ==
    IF n = 0 THEN FreshMemory(EarlierTimestamp)
    ELSE feedback_added(RecordAfterFeedbacks(n - 1), PastFeedbackArg, EarlierTimestamp)

\* The sessions start on a user without a file, or on a user whose file
\* holds a record that has been through one consolidation.
InitStore ==
    /\ \E n \in {0, MAX_RECENT + 1} :
          /\ memory = RecordAfterFeedbacks(n)
          /\ disk = IF n = 0 THEN NoFile ELSE save_memory(RecordAfterFeedbacks(n))
          /\ fb_log = PastLog(n)
    /\ order_log = <<>>
    /\ ret = ReturnsNone
    /\ InitAgent
    /\ InitCatalog
    /\ InitSessions

\* The store of a user whose window is full: the record after MAX_RECENT
\* add_feedback calls, as written by the last of them.
InitFrame ==
    /\ memory = RecordAfterFeedbacks(MAX_RECENT)
    /\ disk = save_memory(RecordAfterFeedbacks(MAX_RECENT))
    /\ fb_log = PastLog(MAX_RECENT)
    /\ order_log = <<>>
    /\ ret = ReturnsNone
    /\ InitAgent
    /\ InitCatalog
    /\ InitSessions

\* Every public method of the memory store.
NextFrame ==
    \/ add_order
    \/ add_feedback
    \/ update_preferences
    \/ get_memory_context_call
    \/ get_order_history
    \/ get_recent_feedbacks

SpecFrame == InitFrame /\ [][NextFrame]_vars

\* The page for one user: sessions start, load the system, and dishes are
\* selected and confirmed or cancelled in the feedback form.
NextUI ==
    \/ initialize_session_state
    \/ load_system
    \/ select_dish
    \/ show_feedback_form

SpecUI == Init /\ [][NextUI]_vars

NextStore ==
    \/ session_construct
    \/ session_add_order
    \/ session_add_feedback
    \/ session_update_preferences

SpecStore == InitStore /\ [][NextStore]_vars

\* The orchestrator on the tables get_food_database returns.
NextCatalog ==
    \/ get_food_database_call
    \/ agent_init
    \/ pq_classify
    \/ pq_filter
    \/ pq_generate

SpecCatalog == Init /\ [][NextCatalog]_vars

\* ------------------------------------------------------------------ claims

Min(a, b) == IF a < b THEN a ELSE b
IsPrefix(s, t) == Len(s) <= Len(t) /\ SubSeq(t, 1, Len(s)) = s
\* The lines of a consolidated summary that stand for feedback entries.
EntryLines(cf) == IF cf = <<>> THEN <<>> ELSE Tail(cf)

\* C1: after every add_order, add_feedback and update_preferences call the
\* recent-feedback window holds at most 10 entries.
C1_WindowAtMostTen == Len(memory.recent_feedbacks) <= 10

\* An insertion has crossed the threshold and the window is full.
C1_Witness == Len(fb_log) > 10 /\ Len(memory.recent_feedbacks) = 10

\* C2: after N insertions the window is the last min(N, 10) inserted entries,
\* in insertion order, whatever their timestamps.
C2_WindowIsLastInserted ==
    LET N == Len(fb_log)
        k == Min(N, 10)
    IN  /\ Len(memory.recent_feedbacks) = k
        /\ memory.recent_feedbacks = SubSeq(fb_log, N - k + 1, N)

\* The evicted first insertion carries a later timestamp than an entry that
\* stays in the window.
C2_Witness ==
    /\ Len(fb_log) = 11
    /\ fb_log[1].timestamp = LaterTimestamp
    /\ \E i \in 1..Len(memory.recent_feedbacks) :
          memory.recent_feedbacks[i].timestamp = EarlierTimestamp

\* C3: an add_feedback that makes the window exceed 10 removes exactly the
\* earliest-inserted entry of the window and appends exactly one line, that
\* entry's, to the consolidated summary; any other add_feedback removes
\* nothing and leaves the summary unchanged.
C3_Step ==
    (fb_log' # fb_log) =>
        LET w == memory.recent_feedbacks
            cf == memory.consolidated_feedback
            e == fb_log'[Len(fb_log')]
        IN  IF Len(w) + 1 > 10
            THEN /\ memory'.recent_feedbacks = Append(Tail(w), e)
                 /\ memory'.consolidated_feedback[1] = SummaryHeader
                 /\ EntryLines(memory'.consolidated_feedback)
                       = Append(EntryLines(cf), SummaryLine(Head(w)))
            ELSE /\ memory'.recent_feedbacks = Append(w, e)
                 /\ memory'.consolidated_feedback = cf
C3_OverflowConsolidatesOldest == [][C3_Step]_vars

\* The 11th insertion has just moved the 1st into the summary.
C3_Witness ==
    /\ Len(fb_log) = 11
    /\ memory.consolidated_feedback = <<SummaryHeader, SummaryLine(fb_log[1])>>
    /\ memory.recent_feedbacks = SubSeq(fb_log, 2, 11)

\* C4: the consolidated summary before any operation is a prefix of the
\* summary after it.
C4_SummaryAppendOnly ==
    [][IsPrefix(memory.consolidated_feedback, memory'.consolidated_feedback)]_vars

\* Two consolidations have happened: the second extended the first's summary.
C4_Witness == Len(memory.consolidated_feedback) = 3 /\ Len(fb_log) = 12

AllEmpty(m) ==
    /\ m.order_history = <<>>
    /\ m.recent_feedbacks = <<>>
    /\ m.consolidated_feedback = <<>>
    /\ DOMAIN m.preferences = {}

\* C5: get_memory_context returns exactly the placeholder iff the record has
\* no orders, no feedback (window and summary empty) and no preferences.
C5_PlaceholderIffEmpty ==
    ret.returned = "text" => (ret.text = Placeholder <=> AllEmpty(memory))

\* The placeholder has been returned for a fresh record.
C5_Witness == ret.returned = "text" /\ ret.text = Placeholder /\ AllEmpty(memory)

\* The section a rendered part belongs to: 1 preferences, 2 orders,
\* 3 recent-window feedback, 4 consolidated summary, 0 the placeholder.
SectionOf(part) ==
    CASE part.kind \in {"prefs_header", "pref_line"} -> 1
      [] part.kind \in {"orders_header", "order_line"} -> 2
      [] part.kind \in {"feedback_header", "feedback_line"} -> 3
      [] part.kind = "consolidated" -> 4
      [] OTHER -> 0

NonEmptySections(m) ==
    (IF DOMAIN m.preferences # {} THEN {1} ELSE {}) \cup
    (IF m.order_history # <<>> THEN {2} ELSE {}) \cup
    (IF m.recent_feedbacks # <<>> THEN {3} ELSE {}) \cup
    (IF m.consolidated_feedback # <<>> THEN {4} ELSE {})

\* C6: get_memory_context renders preferences, orders, recent-window feedback,
\* consolidated summary in that order, and a section appears iff its data is
\* non-empty.
C6_SectionsInOrder ==
    ret.returned = "text" =>
        /\ \A i, j \in 1..Len(ret.text) :
              i < j => SectionOf(ret.text[i]) <= SectionOf(ret.text[j])
        /\ {SectionOf(ret.text[i]) : i \in 1..Len(ret.text)} \ {0}
              = NonEmptySections(memory)

\* All four sections are rendered.
C6_Witness ==
    /\ ret.returned = "text"
    /\ NonEmptySections(memory) = {1, 2, 3, 4}
    /\ {SectionOf(ret.text[i]) : i \in 1..Len(ret.text)} = {1, 2, 3, 4}

\* --- process_query

StagesRun == {calls[i].stage : i \in 1..Len(calls)}
\* The classifier call of the current request returned a response text.
ClassifierSucceeded == calls # <<>> /\ calls[1] = Call("classifier", "text")
ClassifierFailed == calls # <<>> /\ calls[1].outcome \in {"raise", "invalid"}
\* The generator call of the current request, if it was made.
GeneratorCalled == calls # <<>> /\ calls[Len(calls)].stage = "generator"
LastRecommendationInput == recommendation_chat[Len(recommendation_chat)]

\* A response text holds a tag when its opening token is followed, somewhere,
\* by its closing token.
HoldsTag(text, tag) ==
    \E i, j \in 1..Len(text) : i < j /\ text[i] = StartTag(tag) /\ text[j] = EndTag(tag)
NoRecognizedTag(text) ==
    ~HoldsTag(text, "pandas_query") /\ ~HoldsTag(text, "no_database_needed")

\* The filter stage of the current request has run; what eval made of the
\* extracted query.
FilterRan == "filter" \in StagesRun
EvalKind ==
    Eval(CleanQuery(extract_xml_content(handler_text, "pandas_query").content),
         food_df).kind

\* C7: a filter whose expression raises, or whose value is no table, yields
\* an empty result set and never raises out of the filter operation.
C7_FilterFailureYieldsEmpty ==
    (FilterRan /\ EvalKind \in {"raise", "exit", "value"}) =>
        /\ exc = "none"
        /\ debug_info.filtered_dishes_count = 0
        /\ filtered_data_context = NoMatchText

\* C8: after a successful classification whose response holds no recognized
\* tag, the filter is not executed, the generator is invoked with no filtered
\* rows, and no error is returned for it: the text returned is the
\* generator's whenever the generator call succeeds.
C8_NoTagTakesNoFilterPath ==
    (ClassifierSucceeded /\ NoRecognizedTag(handler_text) /\ pc # "step2") =>
        /\ pc \in {"step3", "returned"}
        /\ exc = "none"
        /\ ~FilterRan
        /\ ~debug_info.database_searched
        /\ debug_info.filtered_dishes_count = 0
        /\ filtered_data_context = <<>>
        /\ pc = "step3" => result = NoResult
        /\ pc = "returned" =>
              /\ GeneratorCalled
              /\ ~LastRecommendationInput.has_catalog_section
              /\ calls[Len(calls)].outcome = "text" => result.kind = "final_text"

\* A request with an unclosed tag has been answered with the generator's text.
C8_Witness ==
    /\ pc = "returned"
    /\ ClassifierSucceeded
    /\ handler_text = <<OPEN_PQ, E_VEG_DESSERT>>
    /\ result.kind = "final_text"

\* C9: process_query never raises: whatever the classifier, the filter, the
\* formatting and the generator do, it returns a text, and on a generator
\* failure that text is an error message.
C9_NeverRaises ==
    /\ pc # "raised"
    /\ exc = "none"
    /\ pc = "returned" => result.kind # "none"
    /\ (pc = "returned" /\ GeneratorCalled /\ calls[Len(calls)].outcome # "text") =>
          result.kind \in {"sorry_error", "sorry_generate"}

\* C10: in the classify stage a failed classifier call runs no filter and
\* returns an error; the classify stage returns an error only when the call
\* failed, never because the response holds neither tag.
C10_ClassifyErrorOnlyOnFailure ==
    /\ ClassifierFailed =>
          /\ pc = "returned"
          /\ result.kind \in {"sorry_error", "sorry_process"}
          /\ StagesRun = {"classifier"}
          /\ ~debug_info.database_searched
    /\ ClassifierSucceeded =>
          /\ ~GeneratorCalled => (pc # "returned" /\ result = NoResult)
          /\ (pc = "returned" /\ result.kind \in {"sorry_error", "sorry_process", "sorry_generate"})
                => (GeneratorCalled /\ calls[Len(calls)].outcome # "text")

\* A classifier call has raised and the error was returned without a filter.
C10_Witness ==
    /\ ClassifierFailed
    /\ calls[1].outcome = "raise"
    /\ pc = "returned"
    /\ result.kind = "sorry_error"

\* C11: when the classifier returned a filter expression and executing it
\* fails, process_query does not abort: it goes on to the generation stage
\* with an empty filtered result set and returns the generator's text.
C11_FilterFailureContinues ==
    (FilterRan /\ EvalKind \in {"raise", "exit"}) =>
        /\ pc \in {"step3", "returned"}
        /\ exc = "none"
        /\ debug_info.filtered_dishes_count = 0
        /\ filtered_data_context = NoMatchText
        /\ pc = "returned" =>
              /\ GeneratorCalled
              /\ LastRecommendationInput.catalog_section = NoMatchText
              /\ calls[Len(calls)].outcome = "text" => result.kind = "final_text"

\* C12: add_order appends exactly one order, the one it was called with, at
\* the end of the order list, and the order list before any operation of the
\* memory store is a prefix of the order list after it.
C12_Step ==
    /\ IsPrefix(memory.order_history, memory'.order_history)
    /\ (order_log' # order_log) =>
          memory'.order_history =
              Append(memory.order_history, order_log'[Len(order_log')])
    /\ (order_log' = order_log) => memory'.order_history = memory.order_history
C12_OrdersAppendOnly == [][C12_Step]_vars

\* Six orders of both kinds are held in call order, after feedback and
\* preference calls in between.
C12_Witness ==
    /\ Len(order_log) = 6
    /\ memory.order_history = order_log
    /\ order_log[1].dish_name # order_log[2].dish_name
    /\ memory.recent_feedbacks # <<>>
    /\ DOMAIN memory.preferences # {}

\* A mutating call has returned on this record.
Mutated ==
    order_log # <<>> \/ fb_log # <<>> \/ DOMAIN memory.preferences # {}

\* C13: after every add_order, add_feedback and update_preferences call the
\* durable record equals the whole in-memory record, the effect of a
\* consolidation done in the same call included.
C13_DiskEqualsMemory ==
    Mutated => (disk.exists /\ json_load(disk.content) = memory)

\* The call that consolidated has also written the summary.
C13_Witness ==
    /\ Len(fb_log) = 11
    /\ disk.exists
    /\ Len(json_load(disk.content).consolidated_feedback) = 2
    /\ Len(json_load(disk.content).recent_feedbacks) = 10
    /\ json_load(disk.content) = memory

\* What process_query holds when step 2 is over.
Observed ==
    [exc |-> exc, debug_info |-> debug_info,
     filtered_data_context |-> filtered_data_context]
\* What it would hold had the classifier answered text.
ObservedAfter(text) ==
    LET s == FilterStage(text, food_df,
                 [InitialDebugInfo EXCEPT !.keys = @ \cup {"handler_response"}])
    IN  [exc |-> s.exc, debug_info |-> s.debug_info,
         filtered_data_context |-> s.filtered_data_context]
\* The classifier answers whose filter evaluates to a table without rows.
SucceededEmptyTexts ==
    {t \in HandlerTexts :
        LET q == extract_xml_content(t, "pandas_query")
            ev == Eval(CleanQuery(q.content), food_df)
        IN  Truthy(q) /\ ev.kind = "table" /\ ev.table.rows = <<>>}
Step2Over == pc \in {"step3", "raised"} /\ FilterRan

StageRank(stage) ==
    CASE stage = "classifier" -> 1
      [] stage = "filter" -> 2
      [] stage = "format" -> 3
      [] stage = "generator" -> 4

\* C15: within one process_query call the classifier is called exactly once
\* and first, the filter is executed at most once and only after the
\* classifier returned a response, the generator is called at most once and
\* only after the filter stage, if there was one, has finished, and the call
\* then ends; no stage is run again.
C15_StagesInOrder ==
    /\ (calls = <<>>) <=> (pc = "idle")
    /\ calls # <<>> => calls[1].stage = "classifier"
    /\ \A i, j \in 1..Len(calls) :
          i < j => StageRank(calls[i].stage) < StageRank(calls[j].stage)
    /\ Len(calls) > 1 => calls[1].outcome = "text"
    /\ GeneratorCalled =>
          /\ pc = "returned"
          /\ \A i \in 2..(Len(calls) - 1) : calls[i].outcome = "returned"
          /\ "filter" \in StagesRun <=> "format" \in StagesRun
    /\ pc = "returned" => (GeneratorCalled \/ ClassifierFailed)
    /\ pc = "raised" => calls[Len(calls)].outcome = "raised"
    /\ Len(handler_chat) = 1 + n_queries
    /\ Len(recommendation_chat) <= 1 + n_queries

\* A call has run all three stages, the filter without rows to show.
C15_Witness ==
    /\ pc = "returned"
    /\ calls = <<Call("classifier", "text"), Call("filter", "returned"),
                 Call("format", "returned"), Call("generator", "text")>>
    /\ filtered_data_context = NoMatchText
    /\ n_queries = 2

\* C16: after any sequence of process_query calls, whatever filter
\* expressions the classifier supplied, the dish table held by the
\* orchestrator equals the table it was constructed with.
C16_CatalogReadOnly == food_df = create_food_database

\* C17: get_food_database called when the backing file is absent and called
\* again when the file is present return the same ordered sequence of dishes
\* with the same field values.
C17_LoadIdempotent ==
    \A i, j \in 1..Len(loads) : loads[i] = loads[j]

\* The code of the query extracted from the classifier's response.
ExtractedCode ==
    CodeTokens(CleanQuery(extract_xml_content(handler_text, "pandas_query").content), FALSE)

\* C18: the seeded catalog has exactly 20 dishes, and selecting from it the
\* rows with dietary = Vegetarian and category = Dessert yields exactly
\* Chocolate Brownie (price 150) and Gulab Jamun (price 80).
C18_SeedVegetarianDesserts ==
    /\ Len(create_food_database.rows) = 20
    /\ Cardinality({create_food_database.rows[i].dish_id : i \in 1..20}) = 20
    /\ (pc = "step3" /\ FilterRan /\ ExtractedCode = <<E_VEG_DESSERT>>
            /\ food_df = create_food_database) =>
          LET blocks == Tail(filtered_data_context)
          IN  /\ debug_info.filtered_dishes_count = 2
              /\ Len(blocks) = 2
              /\ {<<blocks[i].dish_name, blocks[i].price>> : i \in 1..Len(blocks)}
                    = {<<"Chocolate Brownie", 150>>, <<"Gulab Jamun", 80>>}
              /\ \A i \in 1..Len(blocks) :
                    blocks[i].dietary = "Vegetarian" /\ blocks[i].category = "Dessert"

\* The filter has selected the vegetarian desserts of the seeded catalog.
C18_Witness ==
    /\ pc = "step3"
    /\ handler_text = <<OPEN_PQ, NL, E_VEG_DESSERT, NL, CLOSE_PQ>>
    /\ food_df = create_food_database
    /\ debug_info.filtered_dishes_count = 2
    /\ Len(filtered_data_context) = 3

\* C19: when an external model call fails, the message returned to the user
\* is the same whatever the detail text of the exception.
C19_GenericApology ==
    (pc = "returned" /\ calls[Len(calls)].outcome = "raise") =>
        \A d \in ExceptionDetails : result = SorryError(d)

\* The lines of a given kind in the text get_memory_context returned.
LinesOfKind(kind) == SelectSeq(ret.text, LAMBDA part : part.kind = kind)

\* C20: the orders section of get_memory_context lists min(n, 5) orders, the
\* most recently appended ones in insertion order, and its header reports
\* the count n of all orders ever recorded.
C20_OrdersSectionShowsLastFive ==
    (ret.returned = "text" /\ order_log # <<>>) =>
        LET n == Len(order_log)
            k == Min(n, 5)
            header == LinesOfKind("orders_header")
            lines == LinesOfKind("order_line")
        IN  /\ Len(header) = 1
            /\ header[1].total = n
            /\ Len(lines) = k
            /\ \A i \in 1..k : lines[i] = OrderLine(order_log[n - k + i])

\* Six orders were recorded, the first unlike the sixth, and five are listed
\* under a header that says six.
C20_Witness ==
    /\ ret.returned = "text"
    /\ Len(order_log) = 6
    /\ order_log[1].dish_name # order_log[6].dish_name
    /\ Len(LinesOfKind("order_line")) = 5
    /\ LinesOfKind("orders_header")[1].total = 6

\* --- two sessions, write failures, reloading

MutatingOps == {"add_order", "add_feedback", "update_preferences"}
\* The records one mutating call can make of a record.
OneMutationOf(m) ==
    {order_added(m, a, now) : a \in OrderArgs, now \in Clock}
        \cup {feedback_added(m, a, now) : a \in FeedbackArgs, now \in Clock}
        \cup {preferences_updated(m, p) : p \in PreferenceArgs}
\* Both sessions loaded the record, then each made one mutating call that
\* returned normally.
BothLoadedThenEachWrote ==
    /\ Len(store_calls) = 4
    /\ store_calls[1].op = "construct" /\ store_calls[1].ok
    /\ store_calls[2].op = "construct" /\ store_calls[2].ok
    /\ store_calls[3].op \in MutatingOps /\ store_calls[3].ok
    /\ store_calls[4].op \in MutatingOps /\ store_calls[4].ok
    /\ store_calls[3].by # store_calls[4].by

\* C21: when two instances for the same user id each load the record and
\* then each perform one mutation, the durable record ends equal to the last
\* writer's in-memory record, which is the loaded record with the last
\* writer's mutation alone: the earlier writer's mutation is absent, and both
\* calls returned normally.
C21_LastWriterWins ==
    BothLoadedThenEachWrote =>
        LET last == store_calls[4].by
            durable == json_load(disk.content)
        IN  /\ disk.exists
            /\ base["session_1"] = base["session_2"]
            /\ durable = sessions[last][1]
            /\ durable \in OneMutationOf(base[last][1])

\* The first writer recorded an order, the second a feedback entry; the file
\* holds no order.
C21_Witness ==
    /\ BothLoadedThenEachWrote
    /\ store_calls[3].op = "add_order"
    /\ store_calls[4].op = "add_feedback"
    /\ Len(sessions[store_calls[3].by][1].order_history) = 1
    /\ json_load(disk.content).order_history = <<>>
    /\ Len(json_load(disk.content).recent_feedbacks) = 1

\* --- the two chat sessions

\* A transcript opens with its agent's preamble and holds after it only the
\* inputs process_query builds for that agent.
OwnTranscript(chat, agent, kind) ==
    /\ Len(chat) >= 1
    /\ chat[1] = SystemPrompt(agent)
    /\ \A i \in 2..Len(chat) : chat[i].kind = kind
    /\ Len(chat) <= 1 + n_queries

\* C22: each of the two sessions keeps its own transcript while the instance
\* lives: the preamble is its first turn and is sent once; every later turn
\* of the query-handler session is a handler_input and every later turn of
\* the recommendation session a recommendation_input; each process_query
\* adds at most one turn to each; and a step never removes or rewrites a turn.
C22_OwnTranscripts ==
    /\ [](/\ OwnTranscript(handler_chat, "query_handler", "handler_input")
          /\ OwnTranscript(recommendation_chat, "recommendation_agent",
                           "recommendation_input"))
    /\ [][/\ IsPrefix(handler_chat, handler_chat')
          /\ IsPrefix(recommendation_chat, recommendation_chat')
          /\ Len(handler_chat') <= Len(handler_chat) + 1
          /\ Len(recommendation_chat') <= Len(recommendation_chat) + 1
          /\ n_queries' = n_queries => handler_chat' = handler_chat]_vars

\* Two requests were made; one of them ended before the generator.
C22_Witness ==
    /\ pc = "returned"
    /\ Len(handler_chat) = 3
    /\ Len(recommendation_chat) = 2
    /\ recommendation_chat[2].kind = "recommendation_input"
    /\ handler_chat[3].kind = "handler_input"

\* The file holds the whole record m.
InSync(file, m) ==
    file.exists /\ file.content.t = "object" /\ json_load(file.content) = m
\* The call a step of the sessions has just made.
StepsCall == store_calls'[Len(store_calls')]
IsStoreStep == Len(store_calls') = Len(store_calls) + 1
IsMutatingStep == IsStoreStep /\ StepsCall.op \in MutatingOps

\* C28: a mutating call whose write fails has changed the in-memory record
\* all the same: where the file was absent or held the record before the
\* call and the call changed the record, the file no longer holds the record
\* after it. A mutating call whose write completes leaves the file holding
\* the caller's whole in-memory record, which is the record before the call
\* (with every entry of earlier failed calls) plus this call's change.
C28_FailedWriteLeavesMemoryAhead ==
    [][IsMutatingStep =>
        LET s == StepsCall.by
            before == sessions[s][1]
            after == sessions'[s][1]
        IN  /\ after \in OneMutationOf(before)
            /\ (~StepsCall.ok /\ after # before /\ (~disk.exists \/ InSync(disk, before)))
                  => ~InSync(disk', after)
            /\ StepsCall.ok => InSync(disk', after)]_vars

\* The write of an add_order failed, the add_feedback after it on the same
\* instance was written, and the file holds the order as well.
C28_Witness ==
    /\ Len(store_calls) = 3
    /\ store_calls[2] = StoreCall("session_1", "add_order", FALSE)
    /\ store_calls[3] = StoreCall("session_1", "add_feedback", TRUE)
    /\ InSync(disk, sessions["session_1"][1])
    /\ Len(json_load(disk.content).order_history) = 1
    /\ Len(json_load(disk.content).recent_feedbacks) = 1

\* Every call so far was made by instance t and returned normally.
OnlySuccessfulCallsBy(t) ==
    \A i \in 1..Len(store_calls) : store_calls[i].by = t /\ store_calls[i].ok
SameRecordParts(a, b) ==
    /\ a.order_history = b.order_history
    /\ a.recent_feedbacks = b.recent_feedbacks
    /\ a.consolidated_feedback = b.consolidated_feedback
    /\ a.preferences = b.preferences
EmptyRecord(m) ==
    /\ m.order_history = <<>>
    /\ m.recent_feedbacks = <<>>
    /\ m.consolidated_feedback = <<>>
    /\ DOMAIN m.preferences = {}

\* C29: a new instance constructed after successful mutating calls of one
\* instance holds the same orders, recent window, consolidated summary and
\* preferences as that instance; an instance constructed while the user has
\* no file holds an empty record, and constructing never changes the file.
C29_SaveLoadRoundTrip ==
    [][(IsStoreStep /\ StepsCall.op = "construct") =>
        LET s == StepsCall.by
        IN  /\ disk' = disk
            /\ ~disk.exists => (StepsCall.ok /\ EmptyRecord(sessions'[s][1]))
            /\ \A t \in Sessions \ {s} :
                  (sessions[t] # <<>> /\ OnlySuccessfulCallsBy(t)) =>
                      /\ StepsCall.ok
                      /\ SameRecordParts(sessions'[s][1], sessions[t][1])]_vars

\* The second instance was constructed after the first recorded an order and
\* preferences on a record with a full window and a summary.
C29_Witness ==
    /\ Len(store_calls) = 4
    /\ store_calls[2].op = "add_order" /\ store_calls[3].op = "update_preferences"
    /\ store_calls[4] = StoreCall("session_2", "construct", TRUE)
    /\ \A i \in 1..3 : store_calls[i].by = "session_1" /\ store_calls[i].ok
    /\ sessions["session_2"] = sessions["session_1"]
    /\ Len(sessions["session_2"][1].order_history) = 1
    /\ Len(sessions["session_2"][1].recent_feedbacks) = MAX_RECENT
    /\ sessions["session_2"][1].consolidated_feedback # <<>>
    /\ DOMAIN sessions["session_2"][1].preferences # {}

\* --- feedback accounting

SummaryLinesOf(entries) == [i \in 1..Len(entries) |-> SummaryLine(entries[i])]

\* C24: consolidation loses and duplicates no feedback: after N add_feedback
\* calls on a fresh record the consolidated lines followed by the window are
\* the N inserted entries, each once and in insertion order, so the window
\* length plus the number of consolidated lines is N.
C24_NoFeedbackLostOrDuplicated ==
    LET N == Len(fb_log)
        lines == EntryLines(memory.consolidated_feedback)
        k == Len(lines)
    IN  /\ Len(memory.recent_feedbacks) + k = N
        /\ lines = SummaryLinesOf(SubSeq(fb_log, 1, k))
        /\ memory.recent_feedbacks = SubSeq(fb_log, k + 1, N)
        /\ memory.consolidated_feedback # <<>> =>
              memory.consolidated_feedback[1] = SummaryHeader

\* Twelve insertions: two different entries were consolidated, in the order
\* they were inserted.
C24_Witness ==
    /\ Len(fb_log) = MAX_RECENT + 2
    /\ fb_log[1] # fb_log[2]
    /\ EntryLines(memory.consolidated_feedback)
          = <<SummaryLine(fb_log[1]), SummaryLine(fb_log[2])>>
    /\ Len(memory.recent_feedbacks) = MAX_RECENT

\* --- the stages of one request

\* C25: when the classifier call raises or returns no usable response,
\* process_query returns at once with an error message and the debug_info it
\* started with (database_searched false, count 0, no further key); the
\* classifier call is the only stage of that request, so the filter is not
\* executed and the generator is not called, and the step changes neither the
\* recommendation session nor the table.
C25_ClassifierFailureReturnsAtOnce ==
    /\ [](ClassifierFailed =>
            /\ pc = "returned"
            /\ exc = "none"
            /\ result = (IF calls[1].outcome = "raise"
                         THEN SorryError(result.detail) ELSE SorryProcess)
            /\ debug_info = InitialDebugInfo
            /\ Len(calls) = 1
            /\ filtered_data_context = <<>>)
    /\ [][ClassifierFailed' =>
            /\ recommendation_chat' = recommendation_chat
            /\ food_df' = food_df]_vars

\* The second request ended at a classifier response without text, after a
\* first request that reached the generator.
C25_Witness ==
    /\ n_queries = 2
    /\ calls = <<Call("classifier", "invalid")>>
    /\ pc = "returned"
    /\ result = SorryProcess
    /\ debug_info = InitialDebugInfo
    /\ Len(recommendation_chat) = 2

\* The response holds both pandas_query tags and the text between their
\* first occurrences, stripped, is not empty.
HasQueryBody(text) ==
    \E i, j \in 1..Len(text) :
        /\ text[i] = OPEN_PQ /\ \A n \in 1..(i - 1) : text[n] # OPEN_PQ
        /\ text[j] = CLOSE_PQ /\ \A n \in 1..(j - 1) : text[n] # CLOSE_PQ
        /\ \E n \in (i + 1)..(j - 1) : text[n] # NL

\* C26: once step 2 of a request is over, the filter has been executed iff
\* the classifier's response holds both pandas_query tags with a non-empty
\* stripped text between their first occurrences, whether or not the
\* response also holds a no_database_needed tag; a response whose closing
\* tag comes first, or whose body is empty, takes the no-filter path.
C26_FilterRunsIffQueryBody ==
    (ClassifierSucceeded /\ pc # "step2") =>
        (FilterRan <=> HasQueryBody(handler_text))

\* The filter ran on a response that opens with a no_database_needed tag.
C26_Witness ==
    /\ pc = "returned"
    /\ handler_text = <<OPEN_ND, TXT, CLOSE_ND, NL, OPEN_PQ, E_NO_MATCH, CLOSE_PQ>>
    /\ FilterRan
    /\ calls[2] = Call("filter", "returned")

\* C27: the input sent to the generator has a catalog section iff the filter
\* was executed in that request; after a filter that yielded no rows the
\* section is the no-match sentence, and without a filter there is no
\* section; debug_info.database_searched is true exactly in the requests in
\* which the filter was executed.
C27_CatalogSectionIffFilterRan ==
    /\ debug_info.database_searched <=> FilterRan
    /\ GeneratorCalled =>
          /\ LastRecommendationInput.has_catalog_section <=> FilterRan
          /\ (FilterRan /\ debug_info.filtered_dishes_count = 0) =>
                LastRecommendationInput.catalog_section = NoMatchText
          /\ ~FilterRan => LastRecommendationInput.catalog_section = <<>>

\* The generator was told that nothing matched after an evaluation that
\* raised.
C27_Witness ==
    /\ GeneratorCalled
    /\ FilterRan
    /\ handler_text = <<OPEN_PQ, E_KEYERROR, CLOSE_PQ>>
    /\ LastRecommendationInput.catalog_section = NoMatchText
    /\ debug_info.database_searched

\* --- what each operation leaves alone

\* C30: each operation of the memory store changes only its own part of the
\* record. add_order appends to the orders and leaves the window, the summary
\* and the preferences; add_feedback leaves the orders and the preferences;
\* update_preferences sets the given keys, keeps every other key, and leaves
\* orders, window and summary; get_memory_context, get_order_history and
\* get_recent_feedbacks leave the record and the file as they are.
C30_Step ==
    /\ order_log' # order_log =>
          /\ memory'.recent_feedbacks = memory.recent_feedbacks
          /\ memory'.consolidated_feedback = memory.consolidated_feedback
          /\ memory'.preferences = memory.preferences
          /\ Len(memory'.order_history) = Len(memory.order_history) + 1
    /\ fb_log' # fb_log =>
          /\ memory'.order_history = memory.order_history
          /\ memory'.preferences = memory.preferences
    /\ (order_log' = order_log /\ fb_log' = fb_log /\ ret' = ReturnsNone) =>
          /\ memory'.order_history = memory.order_history
          /\ memory'.recent_feedbacks = memory.recent_feedbacks
          /\ memory'.consolidated_feedback = memory.consolidated_feedback
          /\ \E p \in PreferenceArgs :
                /\ DOMAIN memory'.preferences = DOMAIN memory.preferences \cup DOMAIN p
                /\ \A k \in DOMAIN p : memory'.preferences[k] = p[k]
                /\ \A k \in DOMAIN memory.preferences \ DOMAIN p :
                      memory'.preferences[k] = memory.preferences[k]
    /\ ret'.returned # "None" =>
          /\ memory' = memory
          /\ disk' = disk
C30_EachOperationKeepsItsFrame == [][C30_Step]_vars

\* An update of dietary alone has kept spice_preference; an order was added
\* and a feedback consolidated on the way, and a getter has returned a list.
C30_Witness ==
    /\ DOMAIN memory.preferences = PrefKeys
    /\ memory.preferences["dietary"] = "Vegetarian"
    /\ memory.preferences["spice_preference"] = "High"
    /\ Len(memory.order_history) = 1
    /\ Len(fb_log) = MAX_RECENT + 1
    /\ memory.consolidated_feedback # <<>>
    /\ ret.returned = "list"
    /\ InSync(disk, memory)

\* --- orders and feedback recorded by the page

FeedbackEverRecorded(m) ==
    Len(m.recent_feedbacks) + Len(EntryLines(m.consolidated_feedback))

====
